---- MODULE Spec2Model ----
(***************************************************************************)
(* consul-go: the session lifecycle (session.go: WithSession, sessionCtx)  *)
(* and the endpoint shuffles (Shuffle, WeightedShuffle) with the balancers *)
(* that use them.                                                          *)
(*                                                                         *)
(* Durations and times are integers in nanoseconds, as time.Duration is.   *)
(* Time zero is the time.Now() read by newSessionCtx.  The only clock      *)
(* values the code ever reads after that are the tick times delivered by   *)
(* the ticker, so time is carried by the ticker alone.                     *)
(***************************************************************************)
EXTENDS Integers, Sequences, FiniteSets, TLC

\* ------------------------------------------------------------------ bounds
NCallers == 2       \* goroutines that hold the cancel function
MaxTicks == 4       \* ticks the ticker fires in one behaviour
MaxSkew == 1        \* ns between newSessionCtx's time.Now() and NewTicker
MaxLen == 3         \* endpoints in one list
MaxDraw == 2        \* values of one ExpFloat64 draw: 1..MaxDraw
MaxBalance == 3     \* Balance calls served by one rotation instance
NGoroutines == 2    \* goroutines calling LoadBalancer.Balance concurrently

\* ------------------------------------------------------- program constants
Second == 1         \* time.Second, scaled down (the code only multiplies by it)
Release == "release"
Delete == "delete"

\* the renewal goroutine is process 0, the holders of cancel are 1..NCallers
RunProc == 0
Callers == 1..NCallers
Procs == {RunProc} \cup Callers

\* The Session values handed to WithSession; zero and "" are "unset".
Cfg(beh, ld, ttl) == [Behavior |-> beh, LockDelay |-> ld, TTL |-> ttl]

SessionsIn ==
  { Cfg("", 0, 0),        \* everything unset
    Cfg(Delete, 2, 0),    \* TTL unset: 2 x LockDelay = 4, not a multiple of 3
    Cfg("", 0, 3),        \* LockDelay unset, TTL a multiple of 3
    Cfg(Delete, 2, 2),    \* TTL below 3ns: TTL / 3 = 0
    Cfg("", -1, 0),       \* negative LockDelay, TTL unset
    Cfg(Release, 2, -1) } \* negative TTL

\* ------------------------------------------------------------ error values
NoErr == [kind |-> "nil", at |-> 0]
Canceled == [kind |-> "canceled", at |-> 0]
DeadlineExceeded == [kind |-> "deadline", at |-> 0]
CreateErr == [kind |-> "create", at |-> 0]
DestroyErr == [kind |-> "destroy", at |-> 0]
RenewErr(t) == [kind |-> "renew", at |-> t]

NoTick == -1

\* Go's integer division truncates toward zero.
GoDiv(a, b) == IF a >= 0 THEN a \div b ELSE -((-a) \div b)

VARIABLES
  wpc,          \* WithSession: "idle", "creating", "returned"
  session,      \* the Session value after the defaults are resolved
  createSent,   \* the sessionConfig handed to createSession (a sequence, 0 or 1 long)
  retCtx,       \* the context WithSession returned: "none", "session", "error"
  ectxErr,      \* the error carried by the error context
  parentDone,   \* the parent context's Done channel is closed
  parentErr,    \* the parent context's Err()
  err,          \* sessionCtx.err
  done,         \* sessionCtx.done is closed
  once,         \* sessionCtx.once: "fresh", "running", "done"
  rpc,          \* run goroutine: "none", "start", "select", "renew", "cancel", "exited", "panicked"
  deadline,     \* run's deadline
  now,          \* run's now: the tick being handled, NoTick outside the case
  tickBuf,      \* ticker.C (capacity one): the buffered tick time, or NoTick
  tickerNext,   \* the time of the ticker's next tick
  fired,        \* ticks fired so far
  tpc,          \* per process, position in cancelWithError
  cause,        \* per process, the err argument of cancelWithError
  hist,         \* history of the calls issued and of what triggered teardown
  strategy,     \* LoadBalancer.New: the strategy its factory builds
  lb,           \* LoadBalancer's cache: per service name, the instance's counter or NoInstance
  balPc,        \* the Balance call: "idle" (none, or returned), "called"
  balName,      \* the last Balance call: its service name,
  balIn,        \*   the endpoints it was given,
  balOut,       \*   the endpoints it returned (empty until it returns)
  rngHeld,      \* sources taken from the randers pool and not put back
  endpoints,    \* concurrent callers: the endpoint list every call passes
  balancers,    \* LoadBalancer's cache: per service name, the cached instance or NoBalancer
  instances,    \* per service name, the counters of the instances New has built
  calls,        \* per goroutine, its Balance call: position, name, the instance it got
  served        \* per service name, the results returned so far, in order

sessVars == <<wpc, session, createSent, retCtx, ectxErr, parentDone, parentErr, err,
              done, once, rpc, deadline, now, tickBuf, tickerNext, fired, tpc, cause,
              hist>>
balVars == <<strategy, lb, balPc, balName, balIn, balOut, rngHeld>>
lbVars == <<endpoints, balancers, instances, calls, served>>
vars == <<sessVars, balVars, lbVars>>

ctxVars == <<err, done, once>>
runVars == <<rpc, deadline, now, tickBuf, tickerNext, fired>>
beginVars == <<wpc, session, createSent, retCtx, ectxErr>>
parentVars == <<parentDone, parentErr>>

NoSession == [Behavior |-> "", LockDelay |-> 0, TTL |-> 0, ID |-> ""]

HistInit ==
  [ cancelInvoked |-> FALSE,   \* the cancel function was invoked
    cancelReturned |-> FALSE,  \* an invocation of the cancel function returned
    destroyCalls |-> 0,        \* destroySession calls issued
    destroyResult |-> "none",  \* outcome of the destroySession call
    errStores |-> 0,           \* s.err.Store executions
    firstCause |-> "none",     \* who ran the once body: "caller", "parent", "renew"
    firstErr |-> NoErr,        \* the err argument of that invocation
    renewIssued |-> FALSE,     \* a renewSession call was issued
    lastSuccess |-> 0,         \* tick of the last successful renew (0: the creation)
    fatalAt |-> NoTick,        \* first tick not before the deadline whose renew failed
    missBefore |-> FALSE,      \* a renew failed at a tick before the deadline
    lateFail |-> FALSE,        \* a renew failed 2T/3 or more after the last success
    recovered |-> FALSE ]      \* a renew succeeded after an earlier failure

SessInit ==
  /\ wpc = "idle"
  /\ session = NoSession
  /\ createSent = <<>>
  /\ retCtx = "none"
  /\ ectxErr = NoErr
  /\ parentDone = FALSE
  /\ parentErr = NoErr
  /\ err = NoErr
  /\ done = FALSE
  /\ once = "fresh"
  /\ rpc = "none"
  /\ deadline = 0
  /\ now = NoTick
  /\ tickBuf = NoTick
  /\ tickerNext = 0
  /\ fired = 0
  /\ tpc = [p \in Procs |-> "none"]
  /\ cause = [p \in Procs |-> NoErr]
  /\ hist = HistInit

Names == {"service-A", "service-B"}
NoInstance == -1

BalIdle ==
  /\ lb = [n \in Names |-> NoInstance]
  /\ balPc = "idle"
  /\ balName = ""
  /\ balIn = <<>>
  /\ balOut = <<>>
  /\ rngHeld = 0

Goroutines == 1..NGoroutines
NoBalancer == 0
NoCall == [pc |-> "idle", name |-> "", id |-> NoBalancer]

\* no concurrent caller of the LoadBalancer
LBIdle ==
  /\ endpoints = <<>>
  /\ balancers = [n \in Names |-> NoBalancer]
  /\ instances = [n \in Names |-> <<>>]
  /\ calls = [g \in Goroutines |-> NoCall]
  /\ served = [n \in Names |-> <<>>]

\* the session lifecycle, no balancer in use
Init ==
  /\ SessInit
  /\ strategy = "none"
  /\ BalIdle
  /\ LBIdle

\* A panic in the renewal goroutine ends the whole process.
Running == rpc # "panicked"

\* ---------------------------------------------------------- WithSession
ResolveBehavior(b) == IF Len(b) = 0 THEN Release ELSE b
ResolveLockDelay(d) == IF d = 0 THEN 15 * Second ELSE d
ResolveTTL(t, lockDelay) == IF t = 0 THEN 2 * lockDelay ELSE t

Resolve(beh, ld, ttl) ==
  LET lockDelay == ResolveLockDelay(ld) IN
  [ Behavior |-> ResolveBehavior(beh),
    LockDelay |-> lockDelay,
    TTL |-> ResolveTTL(ttl, lockDelay),
    ID |-> "" ]

\* the sessionConfig built for createSession: LockDelay is
\* duration(session.LockDelay), a type conversion, and TTL is
\* seconds(session.TTL); the record keeps the Duration handed to seconds
SessionConfig(s) == [Behavior |-> s.Behavior, LockDelay |-> s.LockDelay, TTL |-> s.TTL]

\* WithSession up to the createSession call
Begin(beh, ld, ttl) ==
  /\ Running
  /\ wpc = "idle"
  /\ session' = Resolve(beh, ld, ttl)
  /\ createSent' = <<SessionConfig(session')>>
  /\ wpc' = "creating"
  /\ UNCHANGED <<retCtx, ectxErr, parentVars, ctxVars, runVars, tpc, cause, hist>>

\* errorContext(ctx, err): an already-cancelled context carrying err
ErrorContext(e) == [kind |-> "error", err |-> e]

\* mutant: the error branch does not return, newSessionCtx starts run
CreateFail_StartsRun ==
  /\ Running
  /\ wpc = "creating"
  /\ wpc' = "returned"
  /\ retCtx' = ErrorContext(CreateErr).kind
  /\ ectxErr' = ErrorContext(CreateErr).err
  /\ rpc' = "start"
  /\ deadline' = 0 + session.TTL
  /\ UNCHANGED <<session, createSent, parentVars, ctxVars, now, tickBuf,
                 tickerNext, fired, tpc, cause, hist>>

\* createSession failed: WithSession returns errorContext(ctx, err)
CreateFail ==
  /\ Running
  /\ wpc = "creating"
  /\ wpc' = "returned"
  /\ retCtx' = ErrorContext(CreateErr).kind
  /\ ectxErr' = ErrorContext(CreateErr).err
  /\ UNCHANGED <<session, createSent, parentVars, ctxVars, runVars, tpc, cause, hist>>

\* createSession succeeded: newSessionCtx, go s.run(time.Now().Add(session.TTL))
CreateOk ==
  /\ Running
  /\ wpc = "creating"
  /\ wpc' = "returned"
  /\ session' = [session EXCEPT !.ID = "sid"]
  /\ retCtx' = "session"
  /\ rpc' = "start"
  /\ deadline' = 0 + session.TTL
  /\ UNCHANGED <<createSent, ectxErr, parentVars, ctxVars, now, tickBuf,
                 tickerNext, fired, tpc, cause, hist>>

\* the parent context ends (cancelled, or its deadline passes)
ParentEnd(e) ==
  /\ Running
  /\ ~parentDone
  /\ parentDone' = TRUE
  /\ parentErr' = e
  /\ UNCHANGED <<beginVars, ctxVars, runVars, tpc, cause, hist>>

\* ------------------------------------------------------ the observers
\* ctx.Done() is closed, ctx.Err(), for the context WithSession returned
Done == IF retCtx = "error" THEN TRUE ELSE done
Err == IF retCtx = "error" THEN ectxErr ELSE err

\* ------------------------------------------------- sessionCtx.cancelWithError
CauseOf(p) ==
  IF p # RunProc THEN "caller"
  ELSE IF cause[p].kind = "renew" THEN "renew" ELSE "parent"

\* the invocation of cancelWithError by process p returns to its caller;
\* h is the history up to the return
Return(p, h) ==
  /\ tpc' = [tpc EXCEPT ![p] = "none"]
  /\ IF p = RunProc
       THEN /\ rpc' = "exited"
            /\ hist' = h
       ELSE /\ hist' = [h EXCEPT !.cancelReturned = TRUE]
            /\ UNCHANGED rpc

\* mutant: cancel stores its error before entering the once
Cancel_StoresFirst(p) ==
  /\ Running
  /\ retCtx = "session"
  /\ tpc[p] = "none"
  /\ tpc' = [tpc EXCEPT ![p] = "enter"]
  /\ cause' = [cause EXCEPT ![p] = Canceled]
  /\ err' = Canceled
  /\ hist' = [hist EXCEPT !.cancelInvoked = TRUE]
  /\ UNCHANGED <<beginVars, parentVars, done, once, runVars>>

\* sessionCtx.cancel: the cancel function WithSession returned
Cancel(p) ==
  /\ Running
  /\ retCtx = "session"
  /\ tpc[p] = "none"
  /\ tpc' = [tpc EXCEPT ![p] = "enter"]
  /\ cause' = [cause EXCEPT ![p] = Canceled]
  /\ hist' = [hist EXCEPT !.cancelInvoked = TRUE]
  /\ UNCHANGED <<beginVars, parentVars, ctxVars, runVars>>

\* the cancel function returned with the error context: it does nothing
CancelErrorContext(p) ==
  /\ Running
  /\ retCtx = "error"
  /\ hist' = [hist EXCEPT !.cancelInvoked = TRUE, !.cancelReturned = TRUE]
  /\ UNCHANGED <<beginVars, parentVars, ctxVars, runVars, tpc, cause>>

\* mutant: a process that arrives while the body runs does not wait
OnceFree_NoWait == TRUE

\* sync.Once admits a process: nobody is inside the body
OnceFree == once # "running"

\* mutant: no single-execution gate, every invocation runs the body
OnceDo_NoGate(p) ==
  /\ Running
  /\ tpc[p] = "enter"
  /\ once' = "running"
  /\ tpc' = [tpc EXCEPT ![p] = "store"]
  /\ hist' = [hist EXCEPT
       !.firstCause = IF @ = "none" THEN CauseOf(p) ELSE @,
       !.firstErr = IF hist.firstCause = "none" THEN cause[p] ELSE @]
  /\ UNCHANGED <<beginVars, parentVars, err, done, runVars, cause>>

\* s.once.Do: the first process runs the body, a process that arrives while
\* the body runs waits for it to end, a later one returns at once
OnceDo(p) ==
  /\ Running
  /\ tpc[p] = "enter"
  /\ OnceFree
  /\ IF once = "fresh"
       THEN /\ once' = "running"
            /\ tpc' = [tpc EXCEPT ![p] = "store"]
            /\ hist' = [hist EXCEPT !.firstCause = CauseOf(p), !.firstErr = cause[p]]
            /\ UNCHANGED rpc
       ELSE /\ Return(p, hist)
            /\ UNCHANGED once
  /\ UNCHANGED <<beginVars, parentVars, err, done, deadline, now, tickBuf,
                 tickerNext, fired, cause>>

\* mutant: the done channel is closed where the error is to be stored
StoreErr_ClosesFirst(p) ==
  /\ Running
  /\ tpc[p] = "store"
  /\ done' = TRUE
  /\ tpc' = [tpc EXCEPT ![p] = "close"]
  /\ hist' = [hist EXCEPT !.errStores = @ + 1]
  /\ UNCHANGED <<beginVars, parentVars, err, once, runVars, cause>>

\* s.err.Store(err)
StoreErr(p) ==
  /\ Running
  /\ tpc[p] = "store"
  /\ err' = cause[p]
  /\ tpc' = [tpc EXCEPT ![p] = "close"]
  /\ hist' = [hist EXCEPT !.errStores = @ + 1]
  /\ UNCHANGED <<beginVars, parentVars, done, once, runVars, cause>>

\* close(s.done)
CloseDone(p) ==
  /\ Running
  /\ tpc[p] = "close"
  /\ done' = TRUE
  /\ tpc' = [tpc EXCEPT ![p] = "issue"]
  /\ UNCHANGED <<beginVars, parentVars, err, once, runVars, cause, hist>>

\* s.session.Client.destroySession(ctx, s.id()) is issued
DestroyIssue(p) ==
  /\ Running
  /\ tpc[p] = "issue"
  /\ tpc' = [tpc EXCEPT ![p] = "await"]
  /\ hist' = [hist EXCEPT !.destroyCalls = @ + 1]
  /\ UNCHANGED <<beginVars, parentVars, ctxVars, runVars, cause>>

DestroyOutcomes == {"ok", "failed", "timeout"}

\* mutant: a failed destroySession replaces the terminal error
DestroyReturn_StoresErr(p, outcome) ==
  /\ Running
  /\ tpc[p] = "await"
  /\ once' = "done"
  /\ err' = IF outcome = "ok" THEN err ELSE DestroyErr
  /\ Return(p, [hist EXCEPT !.destroyResult = outcome])
  /\ UNCHANGED <<beginVars, parentVars, done, deadline, now, tickBuf,
                 tickerNext, fired, cause>>

\* destroySession returns; its result is dropped, the once body ends
DestroyReturn(p, outcome) ==
  /\ Running
  /\ tpc[p] = "await"
  /\ once' = "done"
  /\ Return(p, [hist EXCEPT !.destroyResult = outcome])
  /\ UNCHANGED <<beginVars, parentVars, err, done, deadline, now, tickBuf,
                 tickerNext, fired, cause>>

\* ------------------------------------------------------------ sessionCtx.run
Timeout == GoDiv(session.TTL, 3)

\* timeout := TTL / 3; time.NewTicker(timeout) panics unless timeout > 0
RunStart(skew) ==
  /\ Running
  /\ rpc = "start"
  /\ IF Timeout <= 0
       THEN /\ rpc' = "panicked"
            /\ UNCHANGED tickerNext
       ELSE /\ rpc' = "select"
            /\ tickerNext' = skew + Timeout
  /\ UNCHANGED <<beginVars, parentVars, ctxVars, deadline, now, tickBuf, fired,
                 tpc, cause, hist>>

\* the ticker fires: the tick is buffered, or dropped when one is pending
\* (once run is in cancelWithError it returns without reading ticker.C again)
TickerFire ==
  /\ Running
  /\ rpc \in {"select", "renew"}
  /\ fired < MaxTicks
  /\ fired' = fired + 1
  /\ tickBuf' = IF tickBuf = NoTick THEN tickerNext ELSE tickBuf
  /\ tickerNext' = tickerNext + Timeout
  /\ UNCHANGED <<beginVars, parentVars, ctxVars, rpc, deadline, now, tpc, cause, hist>>

\* mutant: on the termination case the task renews once more before it returns
RunSelectDone_RenewsFirst ==
  /\ Running
  /\ rpc = "select"
  /\ done
  /\ rpc' = "renew"
  /\ now' = tickerNext
  /\ hist' = [hist EXCEPT !.renewIssued = TRUE]
  /\ UNCHANGED <<beginVars, parentVars, ctxVars, deadline, tickBuf,
                 tickerNext, fired, tpc, cause>>

\* case <-s.done: return
RunSelectDone ==
  /\ Running
  /\ rpc = "select"
  /\ done
  /\ rpc' = "exited"
  /\ UNCHANGED <<beginVars, parentVars, ctxVars, deadline, now, tickBuf,
                 tickerNext, fired, tpc, cause, hist>>

\* case <-s.ctx.Done(): s.cancelWithError(s.ctx.Err()); return
RunSelectParent ==
  /\ Running
  /\ rpc = "select"
  /\ parentDone
  /\ rpc' = "cancel"
  /\ tpc' = [tpc EXCEPT ![RunProc] = "enter"]
  /\ cause' = [cause EXCEPT ![RunProc] = parentErr]
  /\ UNCHANGED <<beginVars, parentVars, ctxVars, deadline, now, tickBuf,
                 tickerNext, fired, hist>>

\* case now := <-ticker.C: renewSession is issued
RunSelectTick ==
  /\ Running
  /\ rpc = "select"
  /\ tickBuf # NoTick
  /\ now' = tickBuf
  /\ tickBuf' = NoTick
  /\ rpc' = "renew"
  /\ hist' = [hist EXCEPT !.renewIssued = TRUE]
  /\ UNCHANGED <<beginVars, parentVars, ctxVars, deadline, tickerNext, fired,
                 tpc, cause>>

\* mutant: the comparison is inverted
Before_Inverted(t, d) == ~(t < d)

\* now.Before(deadline)
Before(t, d) == t < d

\* mutant: the deadline advances by the renewal period, not by the TTL
NextDeadline_Period(t) == t + Timeout

\* the deadline after a renewal that succeeded at tick t
NextDeadline(t) == t + session.TTL

\* renewSession returns nil: deadline = now.Add(s.session.TTL)
RenewOk ==
  /\ Running
  /\ rpc = "renew"
  /\ deadline' = NextDeadline(now)
  /\ rpc' = "select"
  /\ now' = NoTick
  /\ hist' = [hist EXCEPT !.lastSuccess = now,
                          !.recovered = @ \/ hist.missBefore]
  /\ UNCHANGED <<beginVars, parentVars, ctxVars, tickBuf, tickerNext, fired,
                 tpc, cause>>

\* 2T/3 or more has elapsed at t since s
LateSince(t, s) == 3 * (t - s) >= 2 * session.TTL

\* the history after a renewSession failure at tick t under deadline d
Failed(t, d) ==
  [hist EXCEPT !.missBefore = @ \/ t < d,
               !.fatalAt = IF @ = NoTick /\ t >= d THEN t ELSE @,
               !.lateFail = @ \/ LateSince(t, hist.lastSuccess)]

\* mutant: a renewal that fails before the deadline moves the deadline too
RenewFail_MovesDeadline ==
  /\ Running
  /\ rpc = "renew"
  /\ IF Before(now, deadline)
       THEN /\ rpc' = "select"
            /\ deadline' = NextDeadline(now)
            /\ UNCHANGED <<tpc, cause>>
       ELSE /\ rpc' = "cancel"
            /\ tpc' = [tpc EXCEPT ![RunProc] = "enter"]
            /\ cause' = [cause EXCEPT ![RunProc] = RenewErr(now)]
            /\ UNCHANGED deadline
  /\ now' = NoTick
  /\ hist' = Failed(now, deadline)
  /\ UNCHANGED <<beginVars, parentVars, ctxVars, tickBuf, tickerNext, fired>>

\* renewSession returns an error: continue before the deadline, else
\* s.cancelWithError(err); return
RenewFail ==
  /\ Running
  /\ rpc = "renew"
  /\ IF Before(now, deadline)
       THEN /\ rpc' = "select"
            /\ UNCHANGED <<tpc, cause>>
       ELSE /\ rpc' = "cancel"
            /\ tpc' = [tpc EXCEPT ![RunProc] = "enter"]
            /\ cause' = [cause EXCEPT ![RunProc] = RenewErr(now)]
  /\ now' = NoTick
  /\ hist' = Failed(now, deadline)
  /\ UNCHANGED <<beginVars, parentVars, ctxVars, deadline, tickBuf,
                 tickerNext, fired>>

\* ------------------------------------------------------------- specification
Next ==
  \/ \E c \in SessionsIn : Begin(c.Behavior, c.LockDelay, c.TTL) /\ UNCHANGED <<balVars, lbVars>>
  \/ CreateFail /\ UNCHANGED <<balVars, lbVars>>
  \/ CreateOk /\ UNCHANGED <<balVars, lbVars>>
  \/ \E e \in {Canceled, DeadlineExceeded} : ParentEnd(e) /\ UNCHANGED <<balVars, lbVars>>
  \/ \E p \in Callers : Cancel(p) /\ UNCHANGED <<balVars, lbVars>>
  \/ \E p \in Callers : CancelErrorContext(p) /\ UNCHANGED <<balVars, lbVars>>
  \/ \E p \in Procs : OnceDo(p) /\ UNCHANGED <<balVars, lbVars>>
  \/ \E p \in Procs : StoreErr(p) /\ UNCHANGED <<balVars, lbVars>>
  \/ \E p \in Procs : CloseDone(p) /\ UNCHANGED <<balVars, lbVars>>
  \/ \E p \in Procs : DestroyIssue(p) /\ UNCHANGED <<balVars, lbVars>>
  \/ \E p \in Procs, o \in DestroyOutcomes : DestroyReturn(p, o) /\ UNCHANGED <<balVars, lbVars>>
  \/ \E skew \in 0..MaxSkew : RunStart(skew) /\ UNCHANGED <<balVars, lbVars>>
  \/ TickerFire /\ UNCHANGED <<balVars, lbVars>>
  \/ RunSelectDone /\ UNCHANGED <<balVars, lbVars>>
  \/ RunSelectParent /\ UNCHANGED <<balVars, lbVars>>
  \/ RunSelectTick /\ UNCHANGED <<balVars, lbVars>>
  \/ RenewOk /\ UNCHANGED <<balVars, lbVars>>
  \/ RenewFail /\ UNCHANGED <<balVars, lbVars>>

Spec == Init /\ [][Next]_vars

TypeOK ==
  /\ wpc \in {"idle", "creating", "returned"}
  /\ retCtx \in {"none", "session", "error"}
  /\ once \in {"fresh", "running", "done"}
  /\ rpc \in {"none", "start", "select", "renew", "cancel", "exited", "panicked"}
  /\ done \in BOOLEAN
  /\ parentDone \in BOOLEAN
  /\ \A p \in Procs : tpc[p] \in {"none", "enter", "store", "close", "issue", "await"}

\* =========================================================== the balancers
\* An Endpoint: its ID, RTT and Tags, and the expWeight scratch field.
Endpoint(id, rtt, tags) == [ID |-> id, RTT |-> rtt, Tags |-> tags, expWeight |-> 0]

IDs == {"a", "b", "c"}

EndpointPool ==
  { Endpoint("a", 1, <<"us-west-2a">>),
    Endpoint("b", 2, <<"us-west-2b">>),
    Endpoint("c", 0, <<"us-west-2a", "canary">>) }

\* the nonempty endpoint lists of at most MaxLen endpoints
Lists == UNION { [1..n -> EndpointPool] : n \in 1..MaxLen }

\* math.MaxFloat64 (scaled down) and the +Inf a product beyond it overflows to
MaxFloat64 == 1000
Inf == MaxFloat64 + 1

\* float64 multiplication of non-negative values
FMul(a, b) == IF a * b > MaxFloat64 THEN Inf ELSE a * b

\* list[i], list[j] = list[j], list[i]
\* mutant: the second assignment reads the overwritten element
Swap_Overwrites(list, i, j) == [list EXCEPT ![i] = list[j]]

\* byExpWeight.Swap
Swap(list, i, j) == [list EXCEPT ![i] = list[j], ![j] = list[i]]

\* byExpWeight.Less
Less(list, i, j) == list[i].expWeight < list[j].expWeight

\* Shuffle's loop from index i on; draws[i] is rng.Intn(i + 1), here in 1..i
RECURSIVE ShuffleFrom(_, _, _)
ShuffleFrom(list, draws, i) ==
  IF i > Len(list) THEN list
  ELSE ShuffleFrom([list EXCEPT ![i] = list[draws[i]], ![draws[i]] = list[i]],
                   draws, i + 1)

\* Shuffle(list)
Shuffle(list, draws) == ShuffleFrom(list, draws, 1)

\* the draws Shuffle can make on a list of n endpoints
IntnDraws(n) == { d \in [1..n -> 1..n] : \A i \in 1..n : d[i] <= i }

\* WeightRTT
WeightRTT(e) == IF e.RTT # 0 THEN e.RTT ELSE MaxFloat64

\* the WeightOf of the WeightedShuffler under test: float64(e.RTT)
WeightRaw(e) == e.RTT

WeightOf(w, e) == IF w = "WeightRTT" THEN WeightRTT(e) ELSE WeightRaw(e)

\* sort.Sort on a short list: insertion sort through Less and Swap.
\* The inner loop moves the element at j down while it is Less than the one
\* before it.
RECURSIVE SinkFrom(_, _)
SinkFrom(list, j) ==
  IF j > 1 /\ Less(list, j, j - 1)
    THEN SinkFrom(Swap(list, j, j - 1), j - 1)
    ELSE list

RECURSIVE SortFrom(_, _)
SortFrom(list, i) ==
  IF i > Len(list) THEN list ELSE SortFrom(SinkFrom(list, i), i + 1)

Sort(list) == SortFrom(list, 2)

\* WeightedShuffle(list, weightOf); draws[i] is the i-th rng.ExpFloat64()
WeightedShuffle(list, w, draws) ==
  Sort([i \in 1..Len(list) |->
          [list[i] EXCEPT !.expWeight = FMul(WeightOf(w, list[i]), draws[i])]])

ExpDraws(n) == [1..n -> 1..MaxDraw]

\* Rotation: the list rotated so that the element at index k (from 0) is first
Rotate(list, k) ==
  [i \in 1..Len(list) |-> list[((i - 1 + k) % Len(list)) + 1]]

\* mutant: the counter advances by two
RoundRobinNext_Skips(c) == c + 2

\* RoundRobin.Balance on an instance whose counter is c: the counter advances
\* by one, the element at counter mod length comes first
RoundRobinNext(c) == c + 1
RoundRobin(list, c) == Rotate(list, RoundRobinNext(c) % Len(list))

\* PreferTags: the endpoints with one of the preferred tags first, the order
\* within each group kept
HasTag(e, tags) == \E i \in 1..Len(e.Tags) : e.Tags[i] \in tags
PreferTags(list, tags) ==
  SelectSeq(list, LAMBDA e : HasTag(e, tags))
    \o SelectSeq(list, LAMBDA e : ~HasTag(e, tags))

Preferred == {"us-west-2a"}

\* the strategies of the balancers table
Strategies ==
  {"RoundRobin", "PreferTags", "PreferTags+RoundRobin", "Shuffler",
   "WeightedShufflerOnRTT", "WeightedShuffler"}

\* a WeightedShuffler whose WeightOf is left nil: calling it panics
NilWeightOf == "WeightedShuffler{}"

\* randers.Get() and randers.Put(rng), on the number of sources held
RandersGet(held) == held + 1
RandersPut(held) == held - 1

\* the counter of the instance cached for name, a new instance's when none is
Instance(name) == IF lb[name] = NoInstance THEN 0 ELSE lb[name]

\* LoadBalancer.Balance(name, list) is called: the instance of the name is
\* looked up, and built and cached on first use
LBCall(name, list) ==
  /\ balPc = "idle"
  /\ Instance(name) < MaxBalance
  /\ balPc' = "called"
  /\ balName' = name
  /\ balIn' = list
  /\ balOut' = <<>>
  /\ lb' = [lb EXCEPT ![name] = Instance(name)]
  /\ UNCHANGED <<strategy, rngHeld>>

\* the instance's Balance returns out and leaves its counter at c
Balanced(out, c) ==
  /\ balPc = "called"
  /\ balPc' = "idle"
  /\ balOut' = out
  /\ lb' = [lb EXCEPT ![balName] = c]
  /\ UNCHANGED <<strategy, balName, balIn>>

BalanceRoundRobin ==
  /\ strategy = "RoundRobin"
  /\ Balanced(RoundRobin(balIn, lb[balName]), RoundRobinNext(lb[balName]))
  /\ UNCHANGED rngHeld

BalancePreferTags ==
  /\ strategy = "PreferTags"
  /\ Balanced(PreferTags(balIn, Preferred), lb[balName])
  /\ UNCHANGED rngHeld

\* MultiBalancer(PreferTags, RoundRobin): each strategy gets the previous output
BalanceMulti ==
  /\ strategy = "PreferTags+RoundRobin"
  /\ Balanced(RoundRobin(PreferTags(balIn, Preferred), lb[balName]),
              RoundRobinNext(lb[balName]))
  /\ UNCHANGED rngHeld

\* Shuffler.Balance: Shuffle(list)
BalanceShuffler(draws) ==
  /\ strategy = "Shuffler"
  /\ Balanced(Shuffle(balIn, draws), lb[balName])
  /\ rngHeld' = RandersPut(RandersGet(rngHeld))

\* WeightedShuffle with a weightOf that panics at its first call (line 87):
\* the source was taken at line 84, and the Put of line 91 is not deferred,
\* so the panic leaves the function without it
BalanceWeightedPanics ==
  /\ strategy = NilWeightOf
  /\ balPc = "called"
  /\ Len(balIn) > 0
  /\ balPc' = "panicked"
  /\ rngHeld' = RandersGet(rngHeld)
  /\ UNCHANGED <<strategy, lb, balName, balIn, balOut>>

\* WeightedShuffler.Balance: WeightedShuffle(list, WeightOf)
BalanceWeighted(draws) ==
  /\ strategy \in {"WeightedShufflerOnRTT", "WeightedShuffler"}
  /\ Balanced(WeightedShuffle(balIn,
                IF strategy = "WeightedShufflerOnRTT" THEN "WeightRTT" ELSE "raw",
                draws),
              lb[balName])
  /\ rngHeld' = RandersPut(RandersGet(rngHeld))

\* a LoadBalancer over one of the strategies, no session
BalInit ==
  /\ SessInit
  /\ strategy \in Strategies \cup {NilWeightOf}
  /\ BalIdle
  /\ LBIdle

BalNext ==
  \/ \E n \in Names, l \in Lists : LBCall(n, l) /\ UNCHANGED <<sessVars, lbVars>>
  \/ BalanceRoundRobin /\ UNCHANGED <<sessVars, lbVars>>
  \/ BalancePreferTags /\ UNCHANGED <<sessVars, lbVars>>
  \/ BalanceMulti /\ UNCHANGED <<sessVars, lbVars>>
  \/ \E d \in IntnDraws(Len(balIn)) : BalanceShuffler(d) /\ UNCHANGED <<sessVars, lbVars>>
  \/ \E d \in ExpDraws(Len(balIn)) : BalanceWeighted(d) /\ UNCHANGED <<sessVars, lbVars>>
  \/ BalanceWeightedPanics /\ UNCHANGED <<sessVars, lbVars>>

SpecBal == BalInit /\ [][BalNext]_vars

\* ------------------------------------- the LoadBalancer under concurrent calls
\* Goroutines call LoadBalancer.Balance(name, endpoints) concurrently, over the
\* RoundRobin factory.  A call is two atomic steps: the construct-and-cache
\* lookup of the name's instance, then the Balance of the instance it got,
\* which advances that instance's counter.

\* the calls for name that have looked up their instance and not yet returned
InFlight(name) ==
  { g \in Goroutines : calls[g].pc = "found" /\ calls[g].name = name }

\* mutant: every call builds an instance and stores it over the cached one
LBLookup_AlwaysBuilds(g, name) ==
  /\ calls[g].pc = "idle"
  /\ Len(served[name]) + Cardinality(InFlight(name)) < MaxBalance
  /\ instances' = [instances EXCEPT ![name] = Append(@, 0)]
  /\ balancers' = [balancers EXCEPT ![name] = Len(instances[name]) + 1]
  /\ calls' = [calls EXCEPT ![g] =
                 [pc |-> "found", name |-> name, id |-> balancers'[name]]]
  /\ UNCHANGED <<endpoints, served>>

\* LoadBalancer.Balance, first half: the instance cached for name is looked
\* up; on the first call for the name New builds one and it is cached, in one
\* atomic step
LBLookup(g, name) ==
  /\ calls[g].pc = "idle"
  /\ Len(served[name]) + Cardinality(InFlight(name)) < MaxBalance
  /\ IF balancers[name] = NoBalancer
       THEN /\ instances' = [instances EXCEPT ![name] = Append(@, 0)]
            /\ balancers' = [balancers EXCEPT ![name] = Len(instances[name]) + 1]
       ELSE UNCHANGED <<instances, balancers>>
  /\ calls' = [calls EXCEPT ![g] =
                 [pc |-> "found", name |-> name, id |-> balancers'[name]]]
  /\ UNCHANGED <<endpoints, served>>

\* the result recorded for a call: the instance that served it, the index
\* (from 0) of the input element that came first, the list returned
Result(id, c) ==
  [by |-> id, off |-> RoundRobinNext(c) % Len(endpoints),
   out |-> RoundRobin(endpoints, c)]

\* mutant: one counter is shared by the instances of every name
LBDelegate_SharedCounter(g) ==
  /\ calls[g].pc = "found"
  /\ LET n == calls[g].name
         id == calls[g].id
         c == instances[n][id]
     IN /\ instances' = [m \in Names |->
                           [i \in 1..Len(instances[m]) |->
                              RoundRobinNext(instances[m][i])]]
        /\ served' = [served EXCEPT ![n] = Append(@, Result(id, c))]
  /\ calls' = [calls EXCEPT ![g] = NoCall]
  /\ UNCHANGED <<endpoints, balancers>>

\* LoadBalancer.Balance, second half: the call is delegated to the instance,
\* whose RoundRobin.Balance advances its counter and returns the rotation
LBDelegate(g) ==
  /\ calls[g].pc = "found"
  /\ LET n == calls[g].name
         id == calls[g].id
         c == instances[n][id]
     IN /\ instances' = [instances EXCEPT ![n][id] = RoundRobinNext(c)]
        /\ served' = [served EXCEPT ![n] = Append(@, Result(id, c))]
  /\ calls' = [calls EXCEPT ![g] = NoCall]
  /\ UNCHANGED <<endpoints, balancers>>

\* a LoadBalancer over the RoundRobin factory, called from several goroutines
\* with one endpoint list
LBInit ==
  /\ SessInit
  /\ strategy = "RoundRobin"
  /\ BalIdle
  /\ endpoints \in Lists
  /\ balancers = [n \in Names |-> NoBalancer]
  /\ instances = [n \in Names |-> <<>>]
  /\ calls = [g \in Goroutines |-> NoCall]
  /\ served = [n \in Names |-> <<>>]

LBNext ==
  \/ \E g \in Goroutines, n \in Names :
       LBLookup(g, n) /\ UNCHANGED <<sessVars, balVars>>
  \/ \E g \in Goroutines : LBDelegate(g) /\ UNCHANGED <<sessVars, balVars>>

SpecLB == LBInit /\ [][LBNext]_vars

\* Fairness: every goroutine that can take a step takes it, every call
\* issued returns (each is bounded by a context deadline), the ticker keeps
\* firing, and a select whose case is ready again and again takes it (Go
\* picks uniformly among the ready cases).  Nothing obliges the caller to
\* invoke cancel, or the parent to end.
Fairness ==
  /\ WF_vars((CreateOk \/ CreateFail) /\ UNCHANGED <<balVars, lbVars>>)
  /\ WF_vars((\E skew \in 0..MaxSkew : RunStart(skew)) /\ UNCHANGED <<balVars, lbVars>>)
  /\ WF_vars((TickerFire) /\ UNCHANGED <<balVars, lbVars>>)
  /\ WF_vars((RenewOk \/ RenewFail) /\ UNCHANGED <<balVars, lbVars>>)
  /\ SF_vars((RunSelectDone) /\ UNCHANGED <<balVars, lbVars>>)
  /\ SF_vars((RunSelectParent) /\ UNCHANGED <<balVars, lbVars>>)
  /\ SF_vars((RunSelectTick) /\ UNCHANGED <<balVars, lbVars>>)
  /\ \A p \in Procs :
       /\ WF_vars((OnceDo(p)) /\ UNCHANGED <<balVars, lbVars>>)
       /\ WF_vars((StoreErr(p)) /\ UNCHANGED <<balVars, lbVars>>)
       /\ WF_vars((CloseDone(p)) /\ UNCHANGED <<balVars, lbVars>>)
       /\ WF_vars((DestroyIssue(p)) /\ UNCHANGED <<balVars, lbVars>>)
       /\ WF_vars((\E o \in DestroyOutcomes : DestroyReturn(p, o)) /\ UNCHANGED <<balVars, lbVars>>)

FairSpec == Spec /\ Fairness

\* ------------------------------------------------------------------ claims
\* a session context was returned by WithSession
Created == retCtx = "session"

\* the renewal goroutine's own invocation of cancelWithError has returned
RunReturned == rpc = "exited" /\ cause[RunProc] # NoErr

\* no process is inside cancelWithError
Quiet == \A p \in Procs : tpc[p] = "none"

\* C1: for one session context, however many times cancel and the internal
\* triggers (parent end, fatal renewal failure) invoke teardown, and in
\* whatever interleaving, at most one destroySession call is issued and at
\* most one terminal error is stored, and once any invocation has returned
\* there is exactly one of each.
C1_TeardownOnce ==
  /\ hist.destroyCalls <= 1
  /\ hist.errStores <= 1
  /\ (Created /\ (hist.cancelReturned \/ RunReturned))
       => (hist.destroyCalls = 1 /\ hist.errStores = 1)

\* C1 witness: an invocation by a caller and one by the renewal goroutine have
\* both returned.
C1_Witness ==
  /\ Created
  /\ hist.cancelReturned
  /\ RunReturned
  /\ hist.destroyCalls = 1
  /\ hist.errStores = 1

\* C2, as claimed: when every renewal has failed, the caller has not
\* cancelled and the parent has not ended, the renewal task ends only with the
\* context done, its error the renewal failure of the first tick not before
\* the deadline, and exactly one destroySession call issued.
C2_RenewalExhaustion ==
  (/\ Created
   /\ rpc \in {"exited", "panicked"}
   /\ Quiet
   /\ hist.lastSuccess = 0
   /\ ~hist.cancelInvoked
   /\ ~parentDone)
    => (/\ Done
        /\ Err = RenewErr(hist.fatalAt)
        /\ hist.fatalAt # NoTick
        /\ hist.destroyCalls = 1)

\* C2 for the sessions whose renewal period TTL / 3 is positive, under
\* FairSpec: if every renewal fails, the caller never cancels and the parent
\* never ends, the context becomes done with the failure of the first tick not
\* before the deadline and one destroySession call (or the MaxTicks ticks of
\* the model are used up first).
ValidTTL == Created /\ Timeout > 0
TicksUsedUp == fired = MaxTicks /\ tickBuf = NoTick /\ rpc = "select"
RenewalExhaustionValidTTL ==
  ([](hist.lastSuccess = 0 /\ ~hist.cancelInvoked /\ ~parentDone) /\ <>ValidTTL)
    => <>(\/ /\ Done
              /\ Err = RenewErr(hist.fatalAt)
              /\ hist.fatalAt # NoTick
              /\ hist.destroyCalls = 1
          \/ TicksUsedUp)

\* C3: a renewal that fails at a tick before the deadline does not cancel the
\* context; and as long as every failure came less than 2T/3 after the last
\* success (or the creation), the caller has not cancelled and the parent has
\* not ended, the context is live: Done not signalled, Err empty.
C3_RenewalTolerance ==
  /\ [](( /\ Created
          /\ ~hist.lateFail
          /\ ~hist.cancelInvoked
          /\ ~parentDone) => (~Done /\ Err = NoErr /\ rpc # "cancel"))
  /\ [][(rpc = "renew" /\ now < deadline /\ rpc' # "renew")
          => (rpc' = "select" /\ tpc' = tpc /\ Done' = Done /\ Err' = Err)]_vars

\* C3 witness: a renewal failed, a later one succeeded, no failure came 2T/3
\* after a success, and the context is live.
C3_Witness ==
  /\ Created
  /\ hist.recovered
  /\ ~hist.lateFail
  /\ ~hist.cancelInvoked
  /\ ~parentDone
  /\ ~Done
  /\ Err = NoErr

\* C4, as claimed: once the parent has ended, the renewal task ends only with
\* the context done and a destroySession call issued; and when the parent's
\* end is what triggered teardown, Err() is the parent's error.
C4_ParentEnd ==
  /\ (Created /\ parentDone /\ rpc \in {"exited", "panicked"} /\ Quiet)
       => (Done /\ hist.destroyCalls >= 1)
  /\ (Created /\ hist.firstCause = "parent" /\ Err # NoErr) => Err = parentErr

\* C4 for the sessions whose renewal period TTL / 3 is positive, under
\* FairSpec: the parent's end leads to the context done and a destroySession
\* call issued.
ParentEndValidTTL ==
  (ValidTTL /\ parentDone) ~> (Done /\ hist.destroyCalls >= 1)

\* C5: the terminal error is written at most once: a non-empty Err() is the
\* error of the invocation that ran the teardown, and it is the same in every
\* later state.
C5_ErrWrittenOnce ==
  /\ [](Err # NoErr /\ Created => Err = hist.firstErr)
  /\ [][Err # NoErr => Err' = Err]_vars

\* C5 witness: teardown happened by the parent's deadline, then the caller
\* invoked cancel and returned, and Err() is still the parent's error.
C5_Witness ==
  /\ Created
  /\ hist.firstCause = "parent"
  /\ hist.cancelReturned
  /\ Err = DeadlineExceeded

\* C6: a session context is done only after cancel was invoked, the parent
\* ended, or a renewal failed at a tick not before the deadline; until then
\* Done is not signalled, Err() is empty and no destroySession call is issued.
C6_DoneOnlyByCause ==
  (/\ Created
   /\ ~hist.cancelInvoked
   /\ ~parentDone
   /\ hist.fatalAt = NoTick)
    => (~Done /\ Err = NoErr /\ hist.destroyCalls = 0 /\ once = "fresh")

\* C6 witness: renewals were issued, one failed before the deadline, none of
\* the three causes has occurred and the context is live.
C6_Witness ==
  /\ Created
  /\ ~hist.cancelInvoked
  /\ ~parentDone
  /\ hist.fatalAt = NoTick
  /\ hist.missBefore
  /\ fired = MaxTicks
  /\ rpc = "select"
  /\ ~Done

\* C7: when createSession fails, the returned context is already cancelled
\* and carries the creation error, no renewal task exists, and no
\* renewSession or destroySession call is ever issued.
C7_CreateFailure ==
  retCtx = "error"
    => (/\ Done
        /\ Err = CreateErr
        /\ rpc = "none"
        /\ ~hist.renewIssued
        /\ hist.destroyCalls = 0
        /\ Quiet)

\* C7 witness: creation failed and the cancel function was then invoked.
C7_Witness ==
  /\ retCtx = "error"
  /\ hist.cancelReturned
  /\ parentDone

\* C8, as claimed: the lock-delay and the TTL handed to createSession are
\* strictly positive and the behavior is set, whatever Session was passed.
C8_PositiveDurations ==
  createSent # <<>>
    => (/\ createSent[1].LockDelay > 0
        /\ createSent[1].TTL > 0
        /\ createSent[1].Behavior # "")

\* C9: the outcome of destroySession changes nothing of the context: the
\* step in which it returns leaves Done and Err() as they were, and after it
\* the context is done with the error of the invocation that ran the
\* teardown, never the destruction's own failure.
C9_DestroyOutcomeIgnored ==
  /\ [](hist.destroyResult # "none"
          => (Done /\ Err = hist.firstErr /\ Err # DestroyErr /\ Err # NoErr))
  /\ [][(\E p \in Procs : tpc[p] = "await" /\ tpc'[p] # "await")
          => (Done' = Done /\ Err' = Err)]_vars

\* C9 witness: the destroySession call failed and the teardown has ended.
C9_Witness ==
  /\ Created
  /\ hist.destroyResult = "failed"
  /\ once = "done"
  /\ Done
  /\ Err = Canceled

\* the number of endpoints of list whose ID is id
RECURSIVE CountID(_, _)
CountID(list, id) ==
  IF list = <<>> THEN 0
  ELSE (IF Head(list).ID = id THEN 1 ELSE 0) + CountID(Tail(list), id)

\* an endpoint without its scratch field
Plain(e) == [e EXCEPT !.expWeight = 0]

\* C10: whatever the strategy, the list and the random draws, Balance returns
\* a list of the same length with the same multiset of endpoint IDs; the
\* endpoints themselves are those it was given (up to the expWeight scratch
\* field).
BalReturned == balPc = "idle" /\ balIn # <<>>

C10_SetPreservation ==
  BalReturned
    => (/\ Len(balOut) = Len(balIn)
        /\ \A id \in IDs : CountID(balOut, id) = CountID(balIn, id)
        /\ \A i \in 1..Len(balOut) :
             \E j \in 1..Len(balIn) : Plain(balOut[i]) = Plain(balIn[j]))

\* C10 witness: a weighted shuffle of a list with a repeated ID returned it in
\* another order.
C10_Witness ==
  /\ BalReturned
  /\ strategy = "WeightedShufflerOnRTT"
  /\ Len(balIn) = MaxLen
  /\ \E id \in IDs : CountID(balIn, id) = 2
  /\ [i \in 1..Len(balOut) |-> balOut[i].ID] # [i \in 1..Len(balIn) |-> balIn[i].ID]


\* C11: whatever the interleaving of concurrent Balance calls for one service
\* name, New builds one instance for the name, every call (the concurrent
\* first calls too) is served by that cached instance, and the cached
\* instance is never replaced or lost.
C11_OneInstancePerName ==
  /\ [](\A n \in Names :
          /\ Len(instances[n]) <= 1
          /\ (Len(instances[n]) = 1 => balancers[n] = 1)
          /\ \A g \in InFlight(n) : calls[g].id = balancers[n]
          /\ \A k \in 1..Len(served[n]) : served[n][k].by = balancers[n])
  /\ [][\A n \in Names :
          balancers[n] # NoBalancer => balancers'[n] = balancers[n]]_vars

\* two goroutines are inside their first call for the same name at once
C11_Witness ==
  \E n \in Names :
    /\ served[n] = <<>>
    /\ Cardinality(InFlight(n)) >= 2
    /\ balancers[n] # NoBalancer

\* goroutine g takes a step of a Balance call for name n
StepFor(g, n) ==
  \/ calls[g].pc = "idle" /\ calls'[g].pc = "found" /\ calls'[g].name = n
  \/ calls[g].pc = "found" /\ calls[g].name = n /\ calls'[g].pc = "idle"

\* C12: behind the LoadBalancer over the rotation strategy, a Balance call
\* for one service name leaves the cached instance, the counter and the
\* results of every other name unchanged, and the k-th result returned for a
\* name is the same whatever calls for other names are interleaved: it starts
\* at the element at index k mod length.
C12_ServiceIsolation ==
  /\ [][\A n \in Names :
          (\/ instances'[n] # instances[n]
           \/ balancers'[n] # balancers[n]
           \/ served'[n] # served[n])
            => \E g \in Goroutines : StepFor(g, n)]_vars
  /\ [](\A n \in Names : \A k \in 1..Len(served[n]) :
          /\ served[n][k].off = k % Len(endpoints)
          /\ served[n][k].out[1] = endpoints[served[n][k].off + 1])

\* both names have been served, a different number of times, over a list of
\* distinct endpoints
C12_Witness ==
  /\ Len(served["service-A"]) >= 2
  /\ Len(served["service-B"]) = 1
  /\ instances["service-A"][1] # instances["service-B"][1]
  /\ Len(endpoints) = 3
  /\ \A i, j \in 1..3 : i # j => endpoints[i] # endpoints[j]

\* the offsets of the N results returned for name n from the s-th on
Window(n, s) == { served[n][k].off : k \in s..(s + Len(endpoints) - 1) }

\* C13: on a list of length N passed unchanged to every call, each call of a
\* rotation instance advances its counter by one and returns the list
\* rotated so that the element at index (counter mod N) is first, and any N
\* consecutive calls return each of the N rotations exactly once.
C13_RotationPeriod ==
  /\ [][\A n \in Names :
          served'[n] # served[n] =>
            LET id == balancers[n]
                N == Len(endpoints)
                r == served'[n][Len(served'[n])]
            IN /\ instances'[n][id] = instances[n][id] + 1
               /\ r.off = instances'[n][id] % N
               /\ Len(r.out) = N
               /\ \A i \in 1..N : r.out[i] = endpoints[((i - 1 + r.off) % N) + 1]]_vars
  /\ [](\A n \in Names : \A s \in 1..(Len(served[n]) - Len(endpoints) + 1) :
          Window(n, s) = 0..(Len(endpoints) - 1))

\* a name was served as many times as its list of three distinct endpoints
\* is long, with three different rotations
C13_Witness ==
  \E n \in Names :
    /\ Len(endpoints) = 3
    /\ Len(served[n]) = 3
    /\ \A i, j \in 1..3 : i # j =>
         /\ endpoints[i] # endpoints[j]
         /\ served[n][i].out # served[n][j].out

\* C14: teardown records the terminal error before it signals the
\* termination channel, and issues the destroy call only after both: whenever
\* Done is signalled Err is non-empty, and whenever a destroy call has been
\* issued Done is signalled.
C14_TeardownOrder ==
  /\ Done => Err # NoErr
  /\ hist.destroyCalls > 0 => Done /\ Err # NoErr
  /\ \A p \in Procs : tpc[p] \in {"close", "issue", "await"} => err # NoErr
  /\ \A p \in Procs : tpc[p] \in {"issue", "await"} => done

\* a session context whose destroy call is in flight
C14_Witness ==
  /\ Created
  /\ hist.destroyCalls = 1
  /\ hist.destroyResult = "none"
  /\ Done
  /\ Err = hist.firstErr

\* C15: every invocation of cancellation on a session context, the one that
\* runs the teardown and the ones that lose the race alike, returns only
\* after the single destroy call has been issued and has completed.
C15_ReturnAfterDestroy ==
  /\ [][\A p \in Procs :
          tpc[p] # "none" /\ tpc'[p] = "none" =>
            hist'.destroyCalls = 1 /\ hist'.destroyResult # "none"]_vars
  /\ [](hist.cancelReturned /\ Created =>
          hist.destroyCalls = 1 /\ hist.destroyResult # "none")

\* a caller's cancel returned although another invocation ran the teardown
C15_Witness ==
  /\ Created
  /\ hist.cancelReturned
  /\ hist.firstCause # "caller"
  /\ hist.destroyCalls = 1
  /\ once = "done"

\* the renewal task's select takes the tick case: renewSession is issued
RenewIssue == rpc = "select" /\ rpc' = "renew"

\* C16 as claimed: once the termination channel has been signalled the
\* renewal task issues no renew-session call, even when a tick is pending at
\* the same moment.
C16_NoRenewAfterDone == [][done => ~RenewIssue]_vars

\* C16, amended: once the termination channel has been signalled, the
\* renewal task exits with no further action when its select takes the
\* termination case, and it issues a renew-session call after that signal
\* only for a tick that is pending when it selects (the select picks among
\* its ready cases); the tick taken is that pending tick.
C16_ExitOnDoneCase ==
  /\ [][rpc = "select" /\ rpc' = "exited" =>
          /\ done
          /\ UNCHANGED <<beginVars, parentVars, ctxVars, deadline, now, tickBuf,
                         tickerNext, fired, tpc, cause, hist>>]_vars
  /\ [][done /\ RenewIssue => tickBuf # NoTick /\ now' = tickBuf]_vars

\* the task has left through the termination case, after a caller's cancel,
\* with renewals issued before and a tick still pending
C16_Witness ==
  /\ rpc = "exited"
  /\ cause[RunProc] = NoErr
  /\ hist.firstCause = "caller"
  /\ hist.renewIssued
  /\ tickBuf # NoTick

\* the renewal goroutine is running
TaskRunning == rpc \in {"start", "select", "renew", "cancel"}

\* C17: a session context has one renewal task, started at creation, whose
\* lifetime is the context's: while the context is live (not Done) the task
\* is running, and it ends only after the context is Done.
C17_TaskLifetime ==
  /\ Created /\ ~Done => TaskRunning
  /\ rpc # "none" => Created
  /\ rpc = "exited" => Done

\* the same with the panic of time.NewTicker left out: with TTL / 3 > 0 the
\* task runs while the context is live, ends only after Done, and then stays
\* ended
TaskLifetimeValidTTL ==
  /\ [](Created /\ ValidTTL /\ ~Done => TaskRunning)
  /\ [][rpc = "exited" => rpc' = "exited"]_vars
  /\ (Created /\ ValidTTL /\ Done) ~> (rpc = "exited")

\* a Balance call has ended, by returning or by a panic
BalEnded == balIn # <<>> /\ balPc \in {"idle", "panicked"}

\* C18: every call of the uniform and of the weighted shuffle puts the
\* pseudo-random source it took back into the pool on every exit path, the
\* one where the weight function panics included: after a call has ended no
\* source remains held.
C18_RngReturned == BalEnded => rngHeld = 0

\* the calls that return do put the source back
RngReturnedOnReturn == BalReturned => rngHeld = 0

\* a Session whose lock-delay or TTL is negative; the defaults replace zero
\* values only, so the resolved Session is negative where the one passed was
Malformed(s) == s.LockDelay < 0 \/ s.TTL < 0

\* C19: a Session with a malformed parameter (a negative lock-delay or TTL)
\* is rejected by WithSession before any network call: no createSession call
\* is issued for it and no session context is returned.
C19_MalformedRejected ==
  Malformed(session) => createSent = <<>> /\ retCtx # "session"

\* the renewSession call in flight returns nil: the step records its tick as
\* the last success
RenewSucceeds == rpc = "renew" /\ hist'.lastSuccess = now

\* C20: the deadline of the renewal task starts at the creation time (time
\* zero) plus the TTL; it changes only when a renewal succeeds, which sets it
\* to the time of that tick plus the TTL; a renewal that fails leaves it as it
\* is; it never decreases.
C20_DeadlineFrame ==
  /\ [](rpc # "none" /\ hist.lastSuccess = 0 => deadline = 0 + session.TTL)
  /\ [][rpc # "none" /\ deadline' # deadline => RenewSucceeds]_vars
  /\ [][RenewSucceeds => deadline' = now + session.TTL]_vars
  /\ [][rpc = "renew" /\ ~RenewSucceeds => deadline' = deadline]_vars
  /\ [][rpc # "none" => deadline' >= deadline]_vars

\* renewals failed before the deadline, a later one succeeded and moved the
\* deadline to its tick plus the TTL, past the TTL counted from creation
C20_Witness ==
  /\ hist.recovered
  /\ hist.lastSuccess > 0
  /\ deadline = hist.lastSuccess + session.TTL
  /\ deadline > session.TTL
  /\ rpc = "select"
====
